---- MODULE Spec2Model ----
(***************************************************************************)
(* The virtual-file-driver dispatch layer of HDF5 1.8.20 (H5FDint.c):      *)
(* H5FD_read, H5FD_write, H5FD_set_eoa, H5FD_get_eoa, H5FD_get_eof and the *)
(* superblock signature search H5FD_locate_signature, over an abstract     *)
(* driver that keeps one end-of-allocation address per memory type.        *)
(*                                                                         *)
(* Addresses are haddr_t: unsigned integers of AddrBits bits, all          *)
(* arithmetic modulo 2^AddrBits, with the all-ones value HADDR_UNDEF.      *)
(***************************************************************************)
EXTENDS Integers, Sequences, FiniteSets, TLC

\* Width of haddr_t and size_t in the model (64 in the library).
AddrBits == 12

\* Length of the superblock signature, in bytes.
H5F_SIGNATURE_LEN == 8

RECURSIVE Pow2(_)
Pow2(k) == IF k = 0 THEN 1 ELSE 2 * Pow2(k - 1)

AddrRange == Pow2(AddrBits)

HADDR_UNDEF == AddrRange - 1

HADDR_MAX == HADDR_UNDEF - 1

\* Unsigned arithmetic of haddr_t: the value modulo 2^AddrBits.
Wrap(x) == (x + AddrRange) % AddrRange

H5FD_MEM_SUPER == "H5FD_MEM_SUPER"

H5FD_MEM_DRAW == "H5FD_MEM_DRAW"

MemTypes == {H5FD_MEM_SUPER, H5FD_MEM_DRAW}

VARIABLES
    base_addr,      \* file->base_addr
    maxaddr,        \* file->maxaddr
    parallel,       \* the build defines H5_HAVE_PARALLEL
    has_get_eof,    \* file->cls->get_eof is not NULL
    drvEoa,         \* the driver's end-of-allocation per memory type (absolute)
    drvEof,         \* the driver's end of file (absolute)
    sig,            \* absolute addresses at which the file holds the signature
    pc,             \* "idle", "probe", "exit", "done" or "aborted"
    op,             \* the call in progress or just finished
    ret,            \* its return value
    calls,          \* the driver calls it has made, in order
    n,              \* H5FD_locate_signature: loop index
    maxpow,         \* H5FD_locate_signature: loop bound
    addr,           \* H5FD_locate_signature: candidate address
    eoa,            \* H5FD_locate_signature: EOA saved on entry
    lastGet,        \* the last H5FD_get_eoa result since the last H5FD_set_eoa
    prevGet         \* what lastGet was when the H5FD_get_eoa in op was called

vars == <<base_addr, maxaddr, parallel, has_get_eof, drvEoa, drvEof, sig, pc,
          op, ret, calls, n, maxpow, addr, eoa, lastGet, prevGet>>

handle == <<base_addr, maxaddr, parallel, has_get_eof>>

locals == <<n, maxpow, addr, eoa>>

(***************************************************************************)
(* The driver (file->cls).  It stores what set_eoa gives it and reports    *)
(* it back; a failing set_eoa stores nothing.  Reads return the bytes of   *)
(* the file, of which only the places of the signature matter here.        *)
(***************************************************************************)
drv_get_eoa(em, type) == em[type]

drv_set_eoa(em, type, abs, ok) == IF ok THEN [em EXCEPT ![type] = abs] ELSE em

drv_get_eof(ok) == IF ok THEN drvEof ELSE HADDR_UNDEF

\* Whether a driver read of size bytes at abs fills buf with the signature.
drv_read_sig(abs, size) == size = H5F_SIGNATURE_LEN /\ abs \in sig

DrvCall(fn, type, abs, size, ok) ==
    [fn |-> fn, type |-> type, addr |-> abs, size |-> size, ok |-> ok]

(***************************************************************************)
(* Address translation and the checks of the dispatch functions.           *)
(***************************************************************************)
\* Mutant: the relative address is handed to the driver as it is.
AbsAddr_NoBase(a) == a

\* addr + file->base_addr
AbsAddr(a) == Wrap(a + base_addr)

\* Mutant: the base address is not subtracted.
RelAddr_NoBase(x) == x

\* ret_value -= file->base_addr
RelAddr(x) == Wrap(x - base_addr)

\* (addr + file->base_addr + size) > eoa
AddrOverflow(a, size, e) == Wrap(a + base_addr + size) > e

\* Mutant: the early return is missing.
NoOp_Never(size) == FALSE

\* Mutant: the early return is compiled in every build.
NoOp_Always(size) == size = 0

\* 0 == size, compiled only without H5_HAVE_PARALLEL
NoOp(size) == ~parallel /\ size = 0

\* H5F_addr_defined(addr) && addr <= file->maxaddr
SetEoaPre(a) == a # HADDR_UNDEF /\ a <= maxaddr

Result(status, err, value) == [status |-> status, err |-> err, value |-> value]

\* Mutant: a failure of the driver's read or write is not passed on.
H5FD_io_Swallow(fn, failure, em, type, a, size, ok) ==
    IF NoOp(size)
    THEN [status |-> "SUCCEED", err |-> "NONE", calls |-> <<>>, match |-> FALSE,
          em |-> em]
    ELSE LET e == drv_get_eoa(em, type)
             q == DrvCall("get_eoa", type, e, 0, e # HADDR_UNDEF)
         IN  IF e = HADDR_UNDEF
             THEN [status |-> "FAIL", err |-> "CANTINIT", calls |-> <<q>>,
                   match |-> FALSE, em |-> em]
             ELSE IF AddrOverflow(a, size, e)
             THEN [status |-> "FAIL", err |-> "OVERFLOW", calls |-> <<q>>,
                   match |-> FALSE, em |-> em]
             ELSE [status |-> "SUCCEED",
                   err    |-> "NONE",
                   calls  |-> <<q, DrvCall(fn, type, AbsAddr(a), size, ok)>>,
                   match  |-> ok /\ fn = "read" /\ drv_read_sig(AbsAddr(a), size),
                   em     |-> em]

\* H5FD_read and H5FD_write differ in the driver function and the error only.
H5FD_io(fn, failure, em, type, a, size, ok) ==
    IF NoOp(size)
    THEN [status |-> "SUCCEED", err |-> "NONE", calls |-> <<>>, match |-> FALSE,
          em |-> em]
    ELSE LET e == drv_get_eoa(em, type)
             q == DrvCall("get_eoa", type, e, 0, e # HADDR_UNDEF)
         IN  IF e = HADDR_UNDEF
             THEN [status |-> "FAIL", err |-> "CANTINIT", calls |-> <<q>>,
                   match |-> FALSE, em |-> em]
             ELSE IF AddrOverflow(a, size, e)
             THEN [status |-> "FAIL", err |-> "OVERFLOW", calls |-> <<q>>,
                   match |-> FALSE, em |-> em]
             ELSE [status |-> IF ok THEN "SUCCEED" ELSE "FAIL",
                   err    |-> IF ok THEN "NONE" ELSE failure,
                   calls  |-> <<q, DrvCall(fn, type, AbsAddr(a), size, ok)>>,
                   match  |-> ok /\ fn = "read" /\ drv_read_sig(AbsAddr(a), size),
                   em     |-> em]

\* Mutant: a read that reaches the driver moves the EOA to the end of the read.
H5FD_read_MovesEoa(em, type, a, size, ok) ==
    LET r == H5FD_io("read", "READERROR", em, type, a, size, ok)
    IN  [r EXCEPT !.em = IF Len(r.calls) = 2
                         THEN [em EXCEPT ![type] = Wrap(AbsAddr(a) + size)]
                         ELSE em]

H5FD_read(em, type, a, size, ok) ==
    H5FD_io("read", "READERROR", em, type, a, size, ok)

H5FD_write(em, type, a, size, ok) ==
    H5FD_io("write", "WRITEERROR", em, type, a, size, ok)

\* Mutant: the driver's failure is not passed on.
H5FD_set_eoa_Swallow(em, type, a, ok) ==
    [pre    |-> SetEoaPre(a),
     status |-> "SUCCEED",
     err    |-> "NONE",
     em     |-> drv_set_eoa(em, type, AbsAddr(a), ok),
     calls  |-> <<DrvCall("set_eoa", type, AbsAddr(a), 0, ok)>>]

H5FD_set_eoa(em, type, a, ok) ==
    [pre    |-> SetEoaPre(a),
     status |-> IF ok THEN "SUCCEED" ELSE "FAIL",
     err    |-> IF ok THEN "NONE" ELSE "CANTINIT",
     em     |-> drv_set_eoa(em, type, AbsAddr(a), ok),
     calls  |-> <<DrvCall("set_eoa", type, AbsAddr(a), 0, ok)>>]

\* Mutant: the base address is subtracted in the driver's own value.
H5FD_get_eoa_InPlace(em, type) ==
    LET e == drv_get_eoa(em, type)
        q == DrvCall("get_eoa", type, e, 0, e # HADDR_UNDEF)
    IN  IF e = HADDR_UNDEF
        THEN [value |-> HADDR_UNDEF, err |-> "CANTINIT", calls |-> <<q>>, em |-> em]
        ELSE [value |-> RelAddr(e), err |-> "NONE", calls |-> <<q>>,
              em |-> [em EXCEPT ![type] = RelAddr(e)]]

H5FD_get_eoa(em, type) ==
    LET e == drv_get_eoa(em, type)
        q == DrvCall("get_eoa", type, e, 0, e # HADDR_UNDEF)
    IN  IF e = HADDR_UNDEF
        THEN [value |-> HADDR_UNDEF, err |-> "CANTINIT", calls |-> <<q>>, em |-> em]
        ELSE [value |-> RelAddr(e), err |-> "NONE", calls |-> <<q>>, em |-> em]

\* Mutant: without a driver get_eof, maxaddr is returned as it is.
H5FD_get_eof_MaxAbsolute(em, ok) ==
    IF has_get_eof
    THEN LET e == drv_get_eof(ok)
             q == DrvCall("get_eof", H5FD_MEM_SUPER, e, 0, e # HADDR_UNDEF)
         IN  IF e = HADDR_UNDEF
             THEN [value |-> HADDR_UNDEF, err |-> "CANTGET", calls |-> <<q>>,
                   em |-> em]
             ELSE [value |-> RelAddr(e), err |-> "NONE", calls |-> <<q>>, em |-> em]
    ELSE [value |-> maxaddr, err |-> "NONE", calls |-> <<>>, em |-> em]

\* Mutant: the base address is subtracted from the driver's HADDR_UNDEF too.
H5FD_get_eof_SubtractAlways(em, ok) ==
    IF has_get_eof
    THEN LET e == drv_get_eof(ok)
             q == DrvCall("get_eof", H5FD_MEM_SUPER, e, 0, e # HADDR_UNDEF)
         IN  [value |-> RelAddr(e), err |-> IF e = HADDR_UNDEF THEN "CANTGET" ELSE "NONE",
              calls |-> <<q>>, em |-> em]
    ELSE [value |-> RelAddr(maxaddr), err |-> "NONE", calls |-> <<>>, em |-> em]

H5FD_get_eof(em, ok) ==
    IF has_get_eof
    THEN LET e == drv_get_eof(ok)
             q == DrvCall("get_eof", H5FD_MEM_SUPER, e, 0, e # HADDR_UNDEF)
         IN  IF e = HADDR_UNDEF
             THEN [value |-> HADDR_UNDEF, err |-> "CANTGET", calls |-> <<q>>,
                   em |-> em]
             ELSE [value |-> RelAddr(e), err |-> "NONE", calls |-> <<q>>, em |-> em]
    ELSE [value |-> RelAddr(maxaddr), err |-> "NONE", calls |-> <<>>, em |-> em]

(***************************************************************************)
(* H5FD_locate_signature's arithmetic.                                     *)
(***************************************************************************)
\* Mutant: the loop stops one shift early (the floor of log2, not the count).
RECURSIVE ShiftCount_OneLess(_)
ShiftCount_OneLess(x) == IF x <= 1 THEN 0 ELSE 1 + ShiftCount_OneLess(x \div 2)

\* for(maxpow = 0; addr; maxpow++) addr >>= 1;
RECURSIVE ShiftCount(_)
ShiftCount(x) == IF x = 0 THEN 0 ELSE 1 + ShiftCount(x \div 2)

Max(a, b) == IF a >= b THEN a ELSE b

\* Mutant: the floor is 10, so that 512 is always read.
MaxPow_Floor10(eof) == Max(ShiftCount(eof), 10)

\* maxpow = MAX(maxpow, 9)
MaxPow(eof) == Max(ShiftCount(eof), 9)

\* Mutant: index 8 is not special, the first address is 256.
Candidate_NoZero(k) == Wrap(Pow2(k))

\* addr = (8 == n) ? 0 : (haddr_t)1 << n
Candidate(k) == IF k = 8 THEN 0 ELSE Wrap(Pow2(k))

(***************************************************************************)
(* The states the handle and the driver may be in when the layer is used.  *)
(***************************************************************************)
BaseAddrs == {0, 512}

MaxAddrs == {2048, HADDR_MAX - 512}

EofValues == {0, 1032, 2048}

SigSets == {{}, {1024}, {0, 1024}, {1024, 1536}}

InitSuperEoas == {0, 1040, HADDR_UNDEF}

InitDrawEoas == {1040}

NoOpRec == [name |-> "none", type |-> H5FD_MEM_SUPER, addr |-> 0, size |-> 0]

NoRet == Result("NONE", "NONE", 0)

\* No H5FD_get_eoa result is remembered.
NoValue == 0 - 1

NoGet == [t \in MemTypes |-> NoValue]

Init ==
    /\ base_addr \in BaseAddrs
    /\ maxaddr \in MaxAddrs
    /\ base_addr + maxaddr <= HADDR_MAX
    /\ parallel \in BOOLEAN
    /\ has_get_eof \in BOOLEAN
    /\ drvEof \in EofValues
    /\ sig \in SigSets
    /\ \A p \in sig : p + H5F_SIGNATURE_LEN <= drvEof
    /\ \E s \in InitSuperEoas, d \in InitDrawEoas :
          drvEoa = [t \in MemTypes |-> IF t = H5FD_MEM_SUPER THEN s ELSE d]
    /\ pc = "idle"
    /\ op = NoOpRec
    /\ ret = NoRet
    /\ calls = <<>>
    /\ n = 0 /\ maxpow = 0 /\ addr = 0 /\ eoa = 0
    /\ lastGet = NoGet
    /\ prevGet = NoValue

(***************************************************************************)
(* The calls.  Each is made when no other call is in progress; Return      *)
(* hands the result to the caller.                                         *)
(***************************************************************************)
\* Arguments of read and write: address and size.
IoArgs == {<<0, 0>>, <<0, 8>>, <<2048, 0>>, <<1024, 16>>, <<HADDR_UNDEF - 3, 8>>}

SetEoaArgs == {1040, maxaddr, Wrap(maxaddr + 1)}

OpRec(name, type, a, size) == [name |-> name, type |-> type, addr |-> a, size |-> size]

Read ==
    /\ pc = "idle"
    /\ \E type \in MemTypes, as \in IoArgs, ok \in BOOLEAN :
          LET r == H5FD_read(drvEoa, type, as[1], as[2], ok)
          IN  /\ op' = OpRec("read", type, as[1], as[2])
              /\ ret' = Result(r.status, r.err, 0)
              /\ calls' = r.calls
              /\ drvEoa' = r.em
    /\ pc' = "done"
    /\ UNCHANGED <<handle, drvEof, sig, locals, lastGet, prevGet>>

Write ==
    /\ pc = "idle"
    /\ \E type \in MemTypes, as \in IoArgs, ok \in BOOLEAN :
          LET r == H5FD_write(drvEoa, type, as[1], as[2], ok)
          IN  /\ op' = OpRec("write", type, as[1], as[2])
              /\ ret' = Result(r.status, r.err, 0)
              /\ calls' = r.calls
              /\ drvEoa' = r.em
    /\ pc' = "done"
    /\ UNCHANGED <<handle, drvEof, sig, locals, lastGet, prevGet>>

\* HDassert fails in a build with assertions: the process aborts.
SetEoaAbort ==
    /\ pc = "idle"
    /\ \E type \in MemTypes, a \in SetEoaArgs :
          /\ ~H5FD_set_eoa(drvEoa, type, a, TRUE).pre
          /\ op' = OpRec("set_eoa", type, a, 0)
    /\ pc' = "aborted"
    /\ UNCHANGED <<handle, drvEoa, drvEof, sig, locals, lastGet, prevGet, ret, calls>>

\* The precondition holds, or the build has no assertions (NDEBUG).
SetEoa ==
    /\ pc = "idle"
    /\ \E type \in MemTypes, a \in SetEoaArgs, ok \in BOOLEAN :
          LET r == H5FD_set_eoa(drvEoa, type, a, ok)
          IN  /\ op' = OpRec("set_eoa", type, a, 0)
              /\ ret' = Result(r.status, r.err, 0)
              /\ calls' = r.calls
              /\ drvEoa' = r.em
    /\ lastGet' = NoGet
    /\ pc' = "done"
    /\ UNCHANGED <<handle, drvEof, sig, locals, prevGet>>

GetEoa ==
    /\ pc = "idle"
    /\ \E type \in MemTypes :
          LET r == H5FD_get_eoa(drvEoa, type)
          IN  /\ op' = OpRec("get_eoa", type, 0, 0)
              /\ ret' = Result(IF r.err = "NONE" THEN "SUCCEED" ELSE "FAIL",
                               r.err, r.value)
              /\ calls' = r.calls
              /\ drvEoa' = r.em
              /\ lastGet' = [lastGet EXCEPT ![type] = r.value]
              /\ prevGet' = lastGet[type]
    /\ pc' = "done"
    /\ UNCHANGED <<handle, drvEof, sig, locals>>

GetEof ==
    /\ pc = "idle"
    /\ \E ok \in BOOLEAN :
          LET r == H5FD_get_eof(drvEoa, ok)
          IN  /\ op' = OpRec("get_eof", H5FD_MEM_SUPER, 0, 0)
              /\ ret' = Result(IF r.err = "NONE" THEN "SUCCEED" ELSE "FAIL",
                               r.err, r.value)
              /\ calls' = r.calls
              /\ drvEoa' = r.em
    /\ pc' = "done"
    /\ UNCHANGED <<handle, drvEof, sig, locals, lastGet, prevGet>>

(***************************************************************************)
(* H5FD_locate_signature, one step per part of the function: the entry     *)
(* (EOF, EOA and maxpow), one pass of the loop, and the code after it.     *)
(***************************************************************************)
LocateFail(cs) ==
    /\ ret' = Result("FAIL", "CANTINIT", 0)
    /\ calls' = cs
    /\ pc' = "done"

Locate ==
    /\ pc = "idle"
    /\ op' = OpRec("locate_signature", H5FD_MEM_SUPER, 0, 0)
    /\ \E ok \in BOOLEAN :
          LET f == H5FD_get_eof(drvEoa, ok)
              g == H5FD_get_eoa(f.em, H5FD_MEM_SUPER)
          IN  IF f.value = HADDR_UNDEF
              THEN /\ LocateFail(f.calls)
                   /\ drvEoa' = f.em
                   /\ UNCHANGED <<locals, lastGet>>
              ELSE IF g.value = HADDR_UNDEF
              THEN /\ LocateFail(f.calls \o g.calls)
                   /\ drvEoa' = g.em
                   /\ lastGet' = [lastGet EXCEPT ![H5FD_MEM_SUPER] = g.value]
                   /\ UNCHANGED locals
              ELSE /\ n' = 8
                   /\ maxpow' = MaxPow(f.value)
                   /\ addr' = 0
                   /\ eoa' = g.value
                   /\ drvEoa' = g.em
                   /\ lastGet' = [lastGet EXCEPT ![H5FD_MEM_SUPER] = g.value]
                   /\ calls' = f.calls \o g.calls
                   /\ pc' = "probe"
                   /\ UNCHANGED ret
    /\ UNCHANGED <<handle, drvEof, sig, prevGet>>

\* Mutant: the EOA is extended to cover the next candidate as well.
ProbeEoa_Next(k) == Wrap(Candidate(k + 1) + H5F_SIGNATURE_LEN)

\* Mutant: the EOA is extended to the candidate only, not past the signature.
ProbeEoa_Short(k) == Candidate(k)

\* The argument of the loop's H5FD_set_eoa: addr + H5F_SIGNATURE_LEN
ProbeEoa(k) == Wrap(Candidate(k) + H5F_SIGNATURE_LEN)

\* Mutant: the saved EOA is restored as if it were absolute.
RollbackEoa_Absolute == AbsAddr(eoa)

\* The argument of the H5FD_set_eoa after the loop: eoa
RollbackEoa == eoa

LocateProbeAbort ==
    /\ pc = "probe"
    /\ n < maxpow
    /\ ~H5FD_set_eoa(drvEoa, H5FD_MEM_SUPER, ProbeEoa(n), TRUE).pre
    /\ addr' = Candidate(n)
    /\ pc' = "aborted"
    /\ UNCHANGED <<handle, drvEoa, drvEof, sig, op, ret, calls, n, maxpow, eoa,
                   lastGet, prevGet>>

LocateProbe ==
    /\ pc = "probe"
    /\ n < maxpow
    /\ addr' = Candidate(n)
    /\ lastGet' = NoGet
    /\ \E okSet \in BOOLEAN, okRead \in BOOLEAN :
          LET s == H5FD_set_eoa(drvEoa, H5FD_MEM_SUPER, ProbeEoa(n), okSet)
              r == H5FD_read(s.em, H5FD_MEM_SUPER, Candidate(n),
                             H5F_SIGNATURE_LEN, okRead)
          IN  IF s.status = "FAIL"
              THEN /\ LocateFail(calls \o s.calls)
                   /\ drvEoa' = s.em
                   /\ UNCHANGED n
              ELSE IF r.status = "FAIL"
              THEN /\ LocateFail(calls \o s.calls \o r.calls)
                   /\ drvEoa' = r.em
                   /\ UNCHANGED n
              ELSE /\ calls' = calls \o s.calls \o r.calls
                   /\ drvEoa' = r.em
                   /\ n' = IF r.match THEN n ELSE n + 1
                   /\ pc' = IF r.match \/ n + 1 >= maxpow THEN "exit" ELSE "probe"
                   /\ UNCHANGED ret
    /\ UNCHANGED <<handle, drvEof, sig, op, maxpow, eoa, prevGet>>

LocateExitAbort ==
    /\ pc = "exit"
    /\ n >= maxpow
    /\ ~H5FD_set_eoa(drvEoa, H5FD_MEM_SUPER, RollbackEoa, TRUE).pre
    /\ pc' = "aborted"
    /\ UNCHANGED <<handle, drvEoa, drvEof, sig, op, ret, calls, locals, lastGet,
                   prevGet>>

LocateExit ==
    /\ pc = "exit"
    /\ IF n >= maxpow
       THEN \E ok \in BOOLEAN :
               LET s == H5FD_set_eoa(drvEoa, H5FD_MEM_SUPER, RollbackEoa, ok)
               IN  /\ drvEoa' = s.em
                   /\ lastGet' = NoGet
                   /\ IF s.status = "FAIL"
                      THEN LocateFail(calls \o s.calls)
                      ELSE /\ ret' = Result("SUCCEED", "NONE", HADDR_UNDEF)
                           /\ calls' = calls \o s.calls
                           /\ pc' = "done"
       ELSE /\ ret' = Result("SUCCEED", "NONE", addr)
            /\ pc' = "done"
            /\ UNCHANGED <<drvEoa, calls, lastGet>>
    /\ UNCHANGED <<handle, drvEof, sig, op, locals, prevGet>>

\* FUNC_LEAVE_NOAPI(ret_value): the caller takes the result.
Return ==
    /\ pc = "done"
    /\ pc' = "idle"
    /\ op' = NoOpRec
    /\ ret' = NoRet
    /\ calls' = <<>>
    /\ n' = 0 /\ maxpow' = 0 /\ addr' = 0 /\ eoa' = 0
    /\ prevGet' = NoValue
    /\ UNCHANGED <<handle, drvEoa, drvEof, sig, lastGet>>

Next ==
    \/ Read
    \/ Write
    \/ SetEoaAbort
    \/ SetEoa
    \/ GetEoa
    \/ GetEof
    \/ Locate
    \/ LocateProbeAbort
    \/ LocateProbe
    \/ LocateExitAbort
    \/ LocateExit
    \/ Return

Spec == Init /\ [][Next]_vars

(***************************************************************************)
(* What the properties below speak of.                                     *)
(***************************************************************************)
Finished(name) == pc = "done" /\ op.name = name

IoFinished == pc = "done" /\ op.name \in {"read", "write"}

\* The driver read and write calls of the call in op.
IoCalls == {i \in DOMAIN calls : calls[i].fn \in {"read", "write"}}

AllCallsOk == \A i \in DOMAIN calls : calls[i].ok

\* H5FD_locate_signature got past its entry checks.
SearchStarted == Finished("locate_signature") /\ n >= 8

NotFound == ret = Result("SUCCEED", "NONE", HADDR_UNDEF)

Found == ret.status = "SUCCEED" /\ ret.value # HADDR_UNDEF

IsRead(c) == c.fn = "read"

IsSetEoa(c) == c.fn = "set_eoa"

\* The relative addresses the search has read, in order.
ProbeSeq ==
    LET reads == SelectSeq(calls, IsRead)
    IN  [i \in 1..Len(reads) |-> Wrap(reads[i].addr - base_addr)]

\* The relative EOF the search starts from, when the driver answers.
LocEof == H5FD_get_eof(drvEoa, TRUE).value

\* The least N with 2^N > e, but at least 9.
SpecMaxPow(e) ==
    LET least == CHOOSE k \in 0..AddrBits :
                    Pow2(k) > e /\ \A j \in 0..(k - 1) : Pow2(j) <= e
    IN  IF least < 9 THEN 9 ELSE least

\* 0, then the powers of two from 512 to below 2^maxpow.
SpecCandidates(e) == {0} \cup {Pow2(k) : k \in 9..(SpecMaxPow(e) - 1)}

\* The addresses of a search with loop bound mp, in the order of the loop.
SpecProbeSeq(mp) == [i \in 1..(mp - 8) |-> IF i = 1 THEN 0 ELSE Pow2(i + 7)]

\* The candidates at which the file holds the signature.
Matching == {c \in SpecCandidates(LocEof) : (c + base_addr) % AddrRange \in sig}

MinOf(S) == CHOOSE x \in S : \A y \in S : x <= y

\* The relative EOA a caller would now be given for a type.
EoaSeen(em, type) == H5FD_get_eoa(em, type).value

(***************************************************************************)
(* C1.  Bounds enforcement: a read or write (of size > 0, or of any size   *)
(* in a parallel build) with addr + base_addr + size > EOA(type) fails     *)
(* with the overflow error and makes no driver read or write; every driver *)
(* read or write ends at or below EOA(type).  The sums are those of the    *)
(* integers.  The code computes them in haddr_t, where they wrap.          *)
(***************************************************************************)
C1_BoundsEnforced ==
    IoFinished =>
        LET e == drvEoa[op.type]
        IN  /\ (e # HADDR_UNDEF /\ (parallel \/ op.size > 0)
                  /\ op.addr + base_addr + op.size > e)
                  => (ret.status = "FAIL" /\ ret.err = "OVERFLOW" /\ IoCalls = {})
            /\ \A i \in IoCalls : calls[i].addr + calls[i].size <= e

(***************************************************************************)
(* C1, where nothing wraps: when addr + base_addr + size fits in haddr_t   *)
(* the code does enforce the bound.                                        *)
(***************************************************************************)
C1_BoundsEnforcedNoWrap ==
    (IoFinished /\ op.addr + base_addr + op.size < AddrRange)
    => LET e == drvEoa[op.type]
       IN  /\ (e # HADDR_UNDEF /\ (parallel \/ op.size > 0)
                 /\ op.addr + base_addr + op.size > e)
                 => (ret.status = "FAIL" /\ ret.err = "OVERFLOW" /\ IoCalls = {})
           /\ \A i \in IoCalls : calls[i].addr + calls[i].size <= e

(***************************************************************************)
(* C2.  Translation round trip: after a successful H5FD_set_eoa of a       *)
(* defined address a <= maxaddr, H5FD_get_eoa of that type gives a, the    *)
(* driver holding a + base_addr.                                           *)
(***************************************************************************)
C2_RoundTrip ==
    (Finished("set_eoa") /\ ret.status = "SUCCEED"
       /\ op.addr # HADDR_UNDEF /\ op.addr <= maxaddr)
    => /\ EoaSeen(drvEoa, op.type) = op.addr
       /\ drvEoa[op.type] = op.addr + base_addr

C2_Witness ==
    /\ Finished("set_eoa") /\ ret.status = "SUCCEED"
    /\ base_addr = 512 /\ op.addr = maxaddr

(***************************************************************************)
(* C3.  Absence and rollback: when the search ran, every driver call       *)
(* succeeded and no address read holds the signature, the result is "not   *)
(* found" (success, HADDR_UNDEF) and the superblock EOA is the one         *)
(* H5FD_get_eoa gave on entry.                                             *)
(***************************************************************************)
C3_AbsenceRollback ==
    (SearchStarted /\ AllCallsOk
       /\ \A i \in DOMAIN calls : IsRead(calls[i]) => calls[i].addr \notin sig)
    => /\ NotFound
       /\ EoaSeen(drvEoa, H5FD_MEM_SUPER) = eoa
       /\ \E i \in DOMAIN calls :
             /\ calls[i].fn = "get_eoa"
             /\ \A j \in 1..(i - 1) : calls[j].fn # "get_eoa"
             /\ drvEoa[H5FD_MEM_SUPER] = calls[i].addr

C3_Witness ==
    /\ SearchStarted /\ AllCallsOk /\ NotFound
    /\ base_addr = 512 /\ Len(ProbeSeq) >= 3
    /\ eoa # Wrap(Candidate(maxpow - 1) + H5F_SIGNATURE_LEN)

(***************************************************************************)
(* C4.  Lowest match wins: when the search ran, every driver call          *)
(* succeeded and some candidate holds the signature, the result is the     *)
(* least such candidate and nothing above it was read.                     *)
(***************************************************************************)
C4_LowestMatch ==
    (SearchStarted /\ AllCallsOk /\ Matching # {})
    => /\ ret.status = "SUCCEED"
       /\ ret.value = MinOf(Matching)
       /\ \A i \in DOMAIN ProbeSeq : ProbeSeq[i] <= ret.value

\* The signature at 1024 only and an EOF of 2048: 1024 is reported.
C4_Witness ==
    /\ SearchStarted /\ AllCallsOk
    /\ base_addr = 0 /\ sig = {1024} /\ LocEof = 2048
    /\ ret.value = 1024

\* Two candidates hold it, and the lower one is not the first one read.
C4_WitnessTwo ==
    /\ SearchStarted /\ AllCallsOk
    /\ Cardinality(Matching) = 2 /\ ret.value = 512

(***************************************************************************)
(* C5.  Final EOA on a match: when the search returns an address m, the    *)
(* superblock EOA is m + H5F_SIGNATURE_LEN, set by the last H5FD_set_eoa   *)
(* of the search: no later extension, no rollback.                         *)
(***************************************************************************)
C5_FinalEoaOnMatch ==
    (Finished("locate_signature") /\ Found)
    => /\ EoaSeen(drvEoa, H5FD_MEM_SUPER) = ret.value + H5F_SIGNATURE_LEN
       /\ LET sets == SelectSeq(calls, IsSetEoa)
          IN  /\ Len(sets) >= 1
              /\ sets[Len(sets)].addr
                    = (ret.value + H5F_SIGNATURE_LEN + base_addr) % AddrRange

C5_Witness ==
    /\ Finished("locate_signature") /\ Found
    /\ ret.value = 512 /\ base_addr = 512
    /\ eoa # ret.value + H5F_SIGNATURE_LEN

(***************************************************************************)
(* C6.  Empty file.  As claimed: for an EOF of 0 maxpow is 9 and the       *)
(* addresses read, when nothing matches, start 0, 512.                     *)
(***************************************************************************)
C6_EmptyFileReads512 ==
    (SearchStarted /\ AllCallsOk /\ NotFound /\ LocEof = 0)
    => /\ maxpow = 9
       /\ Len(ProbeSeq) >= 2
       /\ ProbeSeq[1] = 0
       /\ ProbeSeq[2] = 512

(***************************************************************************)
(* C6, amended.  For an EOF of 0 maxpow is 9 and the only address read is  *)
(* 0; a search that finds nothing has read 0 first, and has read 512       *)
(* exactly when the EOF is at least 512.                                   *)
(***************************************************************************)
C6_EmptyFileReadsZeroOnly ==
    (SearchStarted /\ AllCallsOk /\ NotFound)
    => /\ ProbeSeq[1] = 0
       /\ (\E i \in DOMAIN ProbeSeq : ProbeSeq[i] = 512) <=> LocEof >= 512
       /\ LocEof = 0 => (maxpow = 9 /\ ProbeSeq = <<0>>)

C6_Witness ==
    SearchStarted /\ AllCallsOk /\ NotFound /\ LocEof = 0 /\ ProbeSeq = <<0>>

(***************************************************************************)
(* C7.  Zero-size no-op: in a build without H5_HAVE_PARALLEL a read or     *)
(* write of size 0 succeeds and makes no driver call at all.               *)
(***************************************************************************)
C7_ZeroSizeNoOp ==
    (IoFinished /\ ~parallel /\ op.size = 0)
    => (ret.status = "SUCCEED" /\ calls = <<>>)

\* Beyond the EOA of the other type, with the driver's EOA undefined.
C7_Witness ==
    /\ IoFinished /\ ~parallel /\ op.size = 0
    /\ drvEoa[op.type] = HADDR_UNDEF
    /\ op.addr > drvEoa[H5FD_MEM_DRAW]
    /\ ret.status = "SUCCEED"

(***************************************************************************)
(* C8.  Zero-size forwarding.  As claimed: in a parallel build every read  *)
(* or write of size 0 makes the driver's read or write call.               *)
(***************************************************************************)
C8_ZeroSizeAlwaysForwarded ==
    (IoFinished /\ parallel /\ op.size = 0)
    => \E i \in IoCalls : calls[i].fn = op.name

(***************************************************************************)
(* C8, amended.  In a parallel build a read or write of size 0 makes the   *)
(* driver's read or write call, once, at addr + base_addr with size 0,     *)
(* exactly when the driver's EOA for the type is defined and               *)
(* addr + base_addr (in haddr_t) does not exceed it; otherwise it fails    *)
(* and makes none.                                                         *)
(***************************************************************************)
C8_ZeroSizeForwardedInBounds ==
    (IoFinished /\ parallel /\ op.size = 0)
    => LET e == drvEoa[op.type]
           inBounds == e # HADDR_UNDEF /\ (op.addr + base_addr) % AddrRange <= e
       IN  /\ inBounds =>
                 /\ Cardinality(IoCalls) = 1
                 /\ \A i \in IoCalls :
                       /\ calls[i].fn = op.name
                       /\ calls[i].addr = (op.addr + base_addr) % AddrRange
                       /\ calls[i].size = 0
                       /\ calls[i].type = op.type
           /\ ~inBounds => (IoCalls = {} /\ ret.status = "FAIL")

C8_Witness ==
    /\ IoFinished /\ parallel /\ op.size = 0 /\ op.name = "write"
    /\ Cardinality(IoCalls) = 1
    /\ ret.status = "SUCCEED"

(***************************************************************************)
(* C9.  H5FD_set_eoa failure: when the driver's set_eoa fails,             *)
(* H5FD_set_eoa fails with the "cannot initialize" error and the EOA of    *)
(* every type, as H5FD_get_eoa gives it, is what it was before the call.   *)
(***************************************************************************)
C9_SetEoaFailure ==
    [][ (pc = "idle" /\ pc' = "done" /\ op'.name = "set_eoa"
           /\ \E i \in DOMAIN calls' : IsSetEoa(calls'[i]) /\ ~calls'[i].ok)
        => /\ ret'.status = "FAIL"
           /\ ret'.err = "CANTINIT"
           /\ \A t \in MemTypes : EoaSeen(drvEoa', t) = EoaSeen(drvEoa, t) ]_vars

C9_Witness ==
    /\ Finished("set_eoa") /\ ret.status = "FAIL"
    /\ \E i \in DOMAIN calls : IsSetEoa(calls[i]) /\ ~calls[i].ok
    /\ drvEoa[op.type] # (op.addr + base_addr) % AddrRange

(***************************************************************************)
(* C10.  Idempotent H5FD_get_eoa: an H5FD_get_eoa gives what the previous  *)
(* H5FD_get_eoa of the same type gave, when no H5FD_set_eoa was called in  *)
(* between (reads, writes and H5FD_get_eof may have been).                 *)
(***************************************************************************)
C10_IdempotentGetEoa ==
    (Finished("get_eoa") /\ prevGet # NoValue) => ret.value = prevGet

C10_Witness ==
    /\ Finished("get_eoa") /\ prevGet # NoValue
    /\ ret.status = "SUCCEED" /\ base_addr = 512 /\ ret.value = prevGet

(***************************************************************************)
(* C11.  H5FD_get_eof's result: when the driver has get_eof and it gives   *)
(* a defined address e, the result is e - base_addr (in haddr_t); when it  *)
(* gives HADDR_UNDEF the call fails and the result is HADDR_UNDEF itself,  *)
(* base_addr not subtracted; when the driver has no get_eof the result is  *)
(* maxaddr - base_addr and the driver is not called.                       *)
(***************************************************************************)
C11_GetEofResult ==
    Finished("get_eof") =>
        IF has_get_eof
        THEN /\ Len(calls) = 1
             /\ calls[1].fn = "get_eof"
             /\ calls[1].ok =>
                   /\ ret.status = "SUCCEED"
                   /\ ret.value = (calls[1].addr - base_addr) % AddrRange
                   /\ calls[1].addr >= base_addr
                         => ret.value = calls[1].addr - base_addr
             /\ ~calls[1].ok =>
                   /\ ret.status = "FAIL"
                   /\ ret.err = "CANTGET"
                   /\ ret.value = HADDR_UNDEF
        ELSE /\ calls = <<>>
             /\ ret.status = "SUCCEED"
             /\ ret.value = maxaddr - base_addr

\* The fallback, with a base address that makes the subtraction visible.
C11_Witness ==
    /\ Finished("get_eof") /\ ~has_get_eof
    /\ base_addr = 512 /\ ret.value = maxaddr - 512

\* The driver's own answer, translated.
C11_WitnessDriver ==
    /\ Finished("get_eof") /\ has_get_eof /\ ret.status = "SUCCEED"
    /\ base_addr = 512 /\ drvEof = 1032 /\ ret.value = 520

(***************************************************************************)
(* C12.  Rollback on the error exit: when H5FD_locate_signature fails      *)
(* after at least one H5FD_set_eoa of its loop took effect (a later        *)
(* driver set_eoa or read failed), the superblock EOA at return is the     *)
(* one saved on entry.  The code leaves through HGOTO_ERROR without        *)
(* calling H5FD_set_eoa again.                                             *)
(***************************************************************************)
C12_RollbackOnErrorExit ==
    (Finished("locate_signature") /\ ret.status = "FAIL"
       /\ \E i \in DOMAIN calls : IsSetEoa(calls[i]) /\ calls[i].ok)
    => EoaSeen(drvEoa, H5FD_MEM_SUPER) = eoa

(***************************************************************************)
(* C13.  The addresses read, in general: maxpow is the greater of 9 and    *)
(* the least N with 2^N > EOF; a search that finds nothing has read        *)
(* exactly 0 and then 2^k for k = 9 .. maxpow - 1, each once, in strictly  *)
(* ascending order; no search ever reads an address strictly between 0     *)
(* and 512; and each driver read at a candidate comes after the driver     *)
(* set_eoa to candidate + H5F_SIGNATURE_LEN of the same pass.              *)
(***************************************************************************)
C13_CandidateSequence ==
    /\ (SearchStarted /\ AllCallsOk /\ NotFound)
       => /\ maxpow = SpecMaxPow(LocEof)
          /\ ProbeSeq = SpecProbeSeq(SpecMaxPow(LocEof))
          /\ \A i, j \in DOMAIN ProbeSeq : i < j => ProbeSeq[i] < ProbeSeq[j]
    /\ op.name = "locate_signature"
       => /\ \A i \in DOMAIN ProbeSeq : ProbeSeq[i] = 0 \/ ProbeSeq[i] >= 512
          /\ \A i \in DOMAIN calls :
                IsRead(calls[i])
                => /\ i > 2
                   /\ IsSetEoa(calls[i - 2])
                   /\ calls[i - 2].addr
                         = (calls[i].addr + H5F_SIGNATURE_LEN) % AddrRange
                   /\ calls[i - 1].fn = "get_eoa"

\* Four addresses read, for a file of 2048 bytes that starts at 512.
C13_Witness ==
    /\ SearchStarted /\ AllCallsOk /\ NotFound
    /\ base_addr = 512 /\ has_get_eof /\ LocEof = 1536
    /\ ProbeSeq = <<0, 512, 1024>>

(***************************************************************************)
(* C14.  The entry check of H5FD_locate_signature: when the driver's       *)
(* get_eof gives HADDR_UNDEF, or the superblock EOA is undefined, the      *)
(* search fails at once with the "cannot initialize" error, having made    *)
(* no driver set_eoa and no driver read, and every EOA is what it was.     *)
(***************************************************************************)
C14_LocatorPrecheck ==
    [][ (pc = "idle" /\ op'.name = "locate_signature"
           /\ \/ \E i \in DOMAIN calls' :
                    calls'[i].fn = "get_eof" /\ ~calls'[i].ok
              \/ drvEoa[H5FD_MEM_SUPER] = HADDR_UNDEF)
        => /\ pc' = "done"
           /\ ret'.status = "FAIL"
           /\ ret'.err = "CANTINIT"
           /\ \A i \in DOMAIN calls' : calls'[i].fn \in {"get_eof", "get_eoa"}
           /\ drvEoa' = drvEoa ]_vars

\* The EOF is there and the superblock EOA is not.
C14_Witness ==
    /\ Finished("locate_signature") /\ ret.status = "FAIL"
    /\ has_get_eof /\ base_addr = 512
    /\ Len(calls) = 2
    /\ calls[1].fn = "get_eof" /\ calls[1].ok
    /\ calls[2].fn = "get_eoa" /\ ~calls[2].ok

\* The driver's get_eof fails: the EOA is not asked for.
C14_WitnessEof ==
    /\ Finished("locate_signature") /\ ret.status = "FAIL"
    /\ base_addr = 512 /\ drvEoa[H5FD_MEM_SUPER] = 1040
    /\ Len(calls) = 1 /\ ~calls[1].ok

(***************************************************************************)
(* C15.  No failure is swallowed: H5FD_read, H5FD_write, H5FD_set_eoa,     *)
(* H5FD_get_eoa and H5FD_get_eof fail whenever a driver call they made     *)
(* failed or gave HADDR_UNDEF; H5FD_locate_signature reports "not found"   *)
(* only when every candidate was read, every driver call succeeded and no  *)
(* address read holds the signature; and when a driver call of the search  *)
(* failed (a set_eoa or read of the loop, the set_eoa that restores the    *)
(* EOA) it fails with the "cannot initialize" error.                       *)
(***************************************************************************)
C15_NoSwallowedFailures ==
    /\ (pc = "done" /\ op.name # "locate_signature" /\ ~AllCallsOk)
       => ret.status = "FAIL"
    /\ (Finished("locate_signature") /\ NotFound)
       => /\ AllCallsOk
          /\ ProbeSeq = SpecProbeSeq(maxpow)
          /\ \A i \in DOMAIN calls : IsRead(calls[i]) => calls[i].addr \notin sig
    /\ (Finished("locate_signature") /\ ~AllCallsOk)
       => (ret.status = "FAIL" /\ ret.err = "CANTINIT")

\* Every candidate was read and the set_eoa that restores the EOA failed.
C15_Witness ==
    /\ Finished("locate_signature") /\ ret.status = "FAIL"
    /\ n >= maxpow /\ Len(ProbeSeq) >= 2
    /\ IsSetEoa(calls[Len(calls)]) /\ ~calls[Len(calls)].ok
    /\ \A i \in 1..(Len(calls) - 1) : calls[i].ok

(***************************************************************************)
(* C16.  Translation at the boundary: the address of every driver read,    *)
(* write and set_eoa call is the caller's address plus base_addr (the sum  *)
(* of haddr_t, which is the sum of the integers whenever that fits), with  *)
(* the caller's memory type and size; the value H5FD_get_eoa and           *)
(* H5FD_get_eof give the caller is the driver's value minus base_addr.     *)
(***************************************************************************)
C16_TranslationAtBoundary ==
    /\ (pc = "done" /\ op.name \in {"read", "write", "set_eoa"})
       => \A i \in DOMAIN calls :
             /\ calls[i].type = op.type
             /\ calls[i].fn = op.name
                => /\ calls[i].addr = (op.addr + base_addr) % AddrRange
                   /\ op.addr + base_addr < AddrRange
                         => calls[i].addr = op.addr + base_addr
                   /\ calls[i].size = op.size
    /\ (Finished("get_eoa") /\ ret.status = "SUCCEED")
       => /\ Len(calls) = 1
          /\ calls[1].fn = "get_eoa" /\ calls[1].type = op.type
          /\ calls[1].addr = drvEoa[op.type]
          /\ ret.value = (calls[1].addr - base_addr) % AddrRange
    /\ (Finished("get_eof") /\ ret.status = "SUCCEED" /\ has_get_eof)
       => /\ calls[1].addr = drvEof
          /\ ret.value = (drvEof - base_addr) % AddrRange

\* A write of 8 bytes at 0 of a file that starts at 512.
C16_Witness ==
    /\ IoFinished /\ op.name = "write" /\ ret.status = "SUCCEED"
    /\ base_addr = 512 /\ op.addr = 0 /\ op.size = 8
    /\ op.type = H5FD_MEM_DRAW
    /\ \E i \in IoCalls : calls[i].addr = 512 /\ calls[i].size = 8

(***************************************************************************)
(* C17.  Frame: H5FD_read, H5FD_write, H5FD_get_eoa and H5FD_get_eof,      *)
(* failing or not, leave base_addr, maxaddr and the EOA of every memory    *)
(* type as they were; an EOA changes only in a step of H5FD_set_eoa or of  *)
(* H5FD_locate_signature, and only by a driver set_eoa call that           *)
(* succeeded.                                                              *)
(***************************************************************************)
C17_Frame ==
    [][ /\ (pc = "idle" /\ pc' = "done"
              /\ op'.name \in {"read", "write", "get_eoa", "get_eof"})
           => /\ base_addr' = base_addr
              /\ maxaddr' = maxaddr
              /\ drvEoa' = drvEoa
              /\ \A t \in MemTypes : EoaSeen(drvEoa', t) = EoaSeen(drvEoa, t)
        /\ drvEoa' # drvEoa
           => /\ op'.name \in {"set_eoa", "locate_signature"}
              /\ \E i \in DOMAIN calls' :
                    /\ IsSetEoa(calls'[i]) /\ calls'[i].ok
                    /\ i > Len(calls) \/ pc = "idle"
                    /\ drvEoa'[calls'[i].type] = calls'[i].addr ]_vars

\* A read that fails in the driver, after a search has moved an EOA.
C17_Witness ==
    /\ IoFinished /\ op.name = "read" /\ ret.err = "READERROR"
    /\ drvEoa[H5FD_MEM_SUPER] = 8 /\ drvEoa[H5FD_MEM_DRAW] = 1040

(***************************************************************************)
(* C18.  The search keeps H5FD_set_eoa's precondition: on a handle whose   *)
(* EOF and superblock EOA are defined (and not below base_addr), every     *)
(* H5FD_set_eoa of H5FD_locate_signature is given a defined address        *)
(* <= maxaddr, so that the HDassert never fails.  In the code the last     *)
(* candidate may be the EOF itself, and candidate + H5F_SIGNATURE_LEN may  *)
(* exceed maxaddr.                                                         *)
(***************************************************************************)
C18_LocatorKeepsSetEoaPre ==
    (op.name = "locate_signature"
       /\ drvEof >= base_addr /\ drvEof # HADDR_UNDEF
       /\ eoa <= maxaddr)
    => /\ pc # "aborted"
       /\ \A i \in DOMAIN calls :
             IsSetEoa(calls[i]) => SetEoaPre(Wrap(calls[i].addr - base_addr))

(***************************************************************************)
(* C19.  The bounds check in haddr_t: for every addr, base_addr and size   *)
(* the test (addr + base_addr + size) > eoa computed modulo 2^AddrBits     *)
(* decides as the same test on the integers does, so that no read or       *)
(* write whose end lies beyond the EOA reaches the driver because the sum  *)
(* wrapped.  The code does not guard the sum against wrapping.             *)
(***************************************************************************)
C19_FixedWidthCheckAgrees ==
    (IoFinished /\ drvEoa[op.type] # HADDR_UNDEF)
    => LET e == drvEoa[op.type]
           beyond == op.addr + base_addr + op.size > e
       IN  /\ AddrOverflow(op.addr, op.size, e) <=> beyond
           /\ beyond => IoCalls = {}

(***************************************************************************)
(* C20.  The reads of the search are in bounds: with a driver that gives   *)
(* back the EOA it was given, the H5FD_read at a candidate passes the      *)
(* bounds check, for every base_addr (the driver's EOA is the candidate's  *)
(* absolute address plus H5F_SIGNATURE_LEN), and is made in the driver;    *)
(* so the search fails only when a driver call failed or gave HADDR_UNDEF, *)
(* never because of the overflow error.                                    *)
(***************************************************************************)
C20_ProbeReadsInBounds ==
    op.name = "locate_signature"
    => /\ \A i \in DOMAIN calls :
             (IsSetEoa(calls[i]) /\ calls[i].ok /\ calls[i].addr # HADDR_UNDEF
                /\ ~(pc = "done" /\ n >= maxpow /\ i = Len(calls)))
             => /\ Len(calls) >= i + 2
                /\ calls[i + 1].fn = "get_eoa"
                /\ calls[i + 1].addr = calls[i].addr
                /\ IsRead(calls[i + 2])
                /\ (calls[i + 2].addr + calls[i + 2].size) % AddrRange
                      = calls[i].addr
       /\ (pc = "done" /\ ret.status = "FAIL") => ~AllCallsOk

\* The driver's read at the second candidate fails, in a file based at 512.
C20_Witness ==
    /\ Finished("locate_signature") /\ ret.status = "FAIL"
    /\ base_addr = 512 /\ Len(ProbeSeq) = 2
    /\ IsRead(calls[Len(calls)]) /\ ~calls[Len(calls)].ok
    /\ calls[Len(calls)].addr = 1024

\* What a step of H5FD_locate_signature leaves true: the loop bound, the
\* number of driver calls so far, and the memory types it has touched.
LocatorStepInBound ==
    LET sets  == SelectSeq(calls', IsSetEoa)
        reads == SelectSeq(calls', IsRead)
    IN  /\ \A i \in DOMAIN calls' : calls'[i].type = H5FD_MEM_SUPER
        /\ \A t \in MemTypes \ {H5FD_MEM_SUPER} : drvEoa'[t] = drvEoa[t]
        /\ pc' \in {"probe", "exit", "done", "aborted"}
        /\ IF n' < 8
           THEN /\ pc' = "done" /\ ret'.status = "FAIL"
                /\ Len(sets) = 0 /\ Len(reads) = 0
           ELSE /\ maxpow' = SpecMaxPow(LocEof)
                /\ n' <= maxpow'
                /\ pc' = "probe" => n' < maxpow'
                /\ Len(reads) <= maxpow' - 8
                /\ Len(reads) <= n' - 8 + 1
                /\ Len(sets) <= Len(reads) + 1
                /\ Len(sets) <= (maxpow' - 8) + 1
                /\ pc' = "probe" => Len(reads) = n' - 8
                /\ pc' = "done" =>
                      \/ /\ ret'.status = "SUCCEED" /\ ret'.err = "NONE"
                         /\ ret'.value = addr' /\ ret'.value # HADDR_UNDEF
                      \/ ret' = Result("SUCCEED", "NONE", HADDR_UNDEF)
                      \/ ret' = Result("FAIL", "CANTINIT", 0)

(***************************************************************************)
(* C21.  Termination and the number of reads: every call of                *)
(* H5FD_locate_signature (on a handle whose EOF and superblock EOA are     *)
(* not below base_addr, the EOA not above maxaddr) ends as found, not      *)
(* found or failed, after at most maxpow - 8 passes of the loop (one       *)
(* driver set_eoa and one driver read each) and at most one more set_eoa,  *)
(* with maxpow the greater of 9 and the least N with 2^N > EOF; it calls   *)
(* the driver for H5FD_MEM_SUPER only and leaves the EOA of every other    *)
(* memory type as it was.  In the code a pass may end in the failure of    *)
(* H5FD_set_eoa's HDassert, which is none of the three.                    *)
(***************************************************************************)
C21_TerminatesWithinBound ==
    [][ (op'.name = "locate_signature"
           /\ drvEof >= base_addr /\ drvEof # HADDR_UNDEF
           /\ eoa' <= maxaddr)
        => (pc' # "aborted" /\ LocatorStepInBound) ]_vars

(***************************************************************************)
(* C21, but for the HDassert: every step of H5FD_locate_signature keeps    *)
(* the bound on the driver calls and touches H5FD_MEM_SUPER only, and a    *)
(* call that returns has one of the three results.  The loop index grows   *)
(* with every pass that does not end the search and never exceeds maxpow.  *)
(***************************************************************************)
C21_BoundButForAssert ==
    [][ /\ op'.name = "locate_signature" => LocatorStepInBound
        /\ (pc = "probe" /\ pc' = "probe") => n' = n + 1 ]_vars
====
